---- MODULE Spec2Model ----
(***************************************************************************)
(* Batch job orchestration of the ProteinFold pipeline.                    *)
(*                                                                         *)
(*   AlphaFoldBatchHandler  (alphafold_batch_handler.py): a Qt object      *)
(*     whose handlers run to completion on the event loop: the public      *)
(*     calls start/stop/pause/resume, the monitor timer's timeout and the  *)
(*     QTimer.singleShot callbacks that call _process_next_job.            *)
(*   BatchJobQueue          (alphafold_batch_handler.py): job_queue.json.  *)
(*   AlphaFoldJobHandler    (alphafold_job_handler.py): a worker thread    *)
(*     looping over the jobs, with AlphaFoldJobMonitor's polling loop.     *)
(*   NCBIBulkFetcher.retry_failed_downloads (ncbi_bulk_fetcher.py).        *)
(*                                                                         *)
(* The Execution Driver (submit, poll, download, login) is the             *)
(* environment: every call's outcome is a nondeterministic input.          *)
(***************************************************************************)
EXTENDS Integers, Sequences, FiniteSets, TLC

\* ---------------------------------------------------------------- bounds
NJobs == 3          \* jobs a caller hands to a controller
MaxQuota == 2       \* largest max_jobs argument given to start_batch
MaxShots == 2       \* QTimer.singleShot callbacks pending at once
JobTimeoutPolls == 1 \* status checks that fit into the job timeout
NGenes == 3         \* items named in a bulk-download summary
MaxPasses == 2      \* retry passes over one summary file
MaxStarts == 2      \* start_batch calls on one controller
MaxGenes == 2       \* items in the gene_list of one bulk fetch
MaxBulkRetries == 3 \* largest max_retries given to search_and_download_bulk

\* ------------------------------------------------------ program constants
DefaultMaxDailyJobs == 30

None == 0
Job == 1..NJobs
AllJobs == [i \in 1..NJobs |-> i]
Range(q) == {q[i] : i \in 1..Len(q)}
Min(a, b) == IF a < b THEN a ELSE b
\* The poll counter tells apart one poll more than the timeout holds.
PollCap == JobTimeoutPolls + 1
\* The lifetime count of submits tells apart one more than a run can make.
LifetimeCap == NJobs + 1
NoDup(q) == \A i, k \in 1..Len(q) : i # k => q[i] # q[k]

\* The job lists a caller passes: a tail of the prepared list (the GUI resumes
\* with batch_jobs[current_job_index:]); the dicts are shared, not copied.
JobLists == {SubSeq(AllJobs, i, NJobs) : i \in 1..(NJobs + 1)}

\* Outcomes of the Execution Driver's calls, as the handlers see them.
SubmitOutcomes == {"ok", "fail", "raise"}
LoginOutcomes == {"ok", "fail", "raise"}
DownloadOutcomes == {"ok", "fail", "raise"}
PollStatuses == {"Queued", "Running", "Completed", "Failed", "Unknown"}
PollOutcomes == PollStatuses \cup {"raise"}

\* Error strings the batch handler stores in a job dict.
ErrSubmitFailed == "Failed to submit job to AlphaFold"
ErrSubmitRaised == "Error submitting job"
ErrJobFailed == "AlphaFold job failed"
ErrDownloadFailed == "Failed to download job results"
ErrDownloadRaised == "Error downloading results"

\* A job dict's optional keys; "absent" is a missing key.
NewJob == [status |-> "absent", job_id |-> FALSE, error |-> "absent", results_path |-> FALSE]

VARIABLES
    \* AlphaFoldBatchHandler fields
    jobs_queue, completed_jobs, failed_jobs, current_job, is_running, should_stop,
    jobs_submitted_today, max_daily_jobs,
    monitor_timer,      \* the monitor QTimer is active
    single_shots,       \* pending singleShot(_process_next_job) callbacks
    connected,          \* uploader and downloader have been created
    job_info,           \* the job dicts, by identity (lists hold references)
    results_summary,
    \* history of the run, read by the properties only
    job_list, dequeued, inflight, polls, downloads, archives, metadata_files,
    limit_emitted, halt, started,
    undelayed,          \* history: a submit call came before the delay had run out
    paused,             \* history: pause_batch was the last public call
    lifetime_submitted, \* history: successful submits since __init__, up to LifetimeCap
    starts,             \* history: start_batch calls that began a run
    \* which controller the caller constructed
    variant,
    \* BatchJobQueue: job_queue.json
    queue_file,
    snap_live,          \* history: the jobs not yet terminal when it was saved
    last_save,          \* history: the latest save_queue call and its arguments
    resumed,            \* history: the run continues a restored queue
    \* NCBIBulkFetcher.retry_failed_downloads and the summary file it rewrites
    summary_file, retry_pc, retry_i, retry_pass, retry_results, still_failed, retry_should_stop,
    max_retries,        \* the argument of the current retry_failed_downloads call
    previous_summary,   \* the summary as loaded when the pass began
    retry_succeeded,    \* history: downloads that succeeded in this pass
    \* NCBIBulkFetcher.search_and_download_bulk
    gene_list, bulk_max_retries, bulk_pc, bulk_i, results, failed_genes,
    bulk_summary,       \* the summary the call wrote and returned
    bulk_attempts,      \* history: download_sequence calls made for each item
    \* AlphaFoldJobHandler fields and its run() thread
    jobs_to_process, successful_jobs, th_failed_jobs, th_should_stop,
    th_pc,              \* where run() stands
    th_i,               \* the loop index i of run(), from 0
    th_job_id,          \* the local job_id of _process_single_job is set
    mon_now,            \* AlphaFoldJobMonitor: time since start_time, in 30 s units
    th_summary,         \* batch_info of batch_summary.json, once generated
    th_completed_emitted,
    th_cause,           \* history: why each job ended
    th_submitted,       \* history: the jobs passed to submit_job, in call order
    th_read             \* history: what the monitor's latest status check gave

batchVars == <<jobs_queue, completed_jobs, failed_jobs, current_job, is_running, should_stop,
          jobs_submitted_today, max_daily_jobs, monitor_timer, single_shots, connected,
          job_info, results_summary,
          job_list, dequeued, inflight, polls, downloads, archives, metadata_files,
          limit_emitted, halt, started, undelayed, paused, lifetime_submitted,
          starts>>

threadVars == <<jobs_to_process, successful_jobs, th_failed_jobs, th_should_stop, th_submitted, th_read,
                th_pc, th_i, th_job_id, mon_now, th_summary, th_completed_emitted,
                th_cause>>

queueVars == <<queue_file, snap_live, last_save, resumed>>

retryVars == <<summary_file, retry_pc, retry_i, retry_pass, retry_results, still_failed,
               retry_should_stop, max_retries, previous_summary, retry_succeeded>>

bulkVars == <<gene_list, bulk_max_retries, bulk_pc, bulk_i, results, failed_genes,
              bulk_summary, bulk_attempts>>

vars == <<batchVars, threadVars, queueVars, retryVars, bulkVars, variant>>

\* The controller's state as one record, so that a handler and the calls it
\* makes compose as functions of the state.
H == [jobs_queue |-> jobs_queue, completed_jobs |-> completed_jobs,
      failed_jobs |-> failed_jobs, current_job |-> current_job,
      is_running |-> is_running, should_stop |-> should_stop,
      jobs_submitted_today |-> jobs_submitted_today, max_daily_jobs |-> max_daily_jobs,
      monitor_timer |-> monitor_timer, single_shots |-> single_shots,
      connected |-> connected, job_info |-> job_info,
      results_summary |-> results_summary,
      job_list |-> job_list, dequeued |-> dequeued, inflight |-> inflight,
      polls |-> polls, downloads |-> downloads, archives |-> archives,
      metadata_files |-> metadata_files,
      limit_emitted |-> limit_emitted, halt |-> halt, started |-> started,
      undelayed |-> undelayed, paused |-> paused,
      lifetime_submitted |-> lifetime_submitted, starts |-> starts]

Commit(s) ==
    /\ jobs_queue' = s.jobs_queue
    /\ completed_jobs' = s.completed_jobs
    /\ failed_jobs' = s.failed_jobs
    /\ current_job' = s.current_job
    /\ is_running' = s.is_running
    /\ should_stop' = s.should_stop
    /\ jobs_submitted_today' = s.jobs_submitted_today
    /\ max_daily_jobs' = s.max_daily_jobs
    /\ monitor_timer' = s.monitor_timer
    /\ single_shots' = s.single_shots
    /\ connected' = s.connected
    /\ job_info' = s.job_info
    /\ results_summary' = s.results_summary
    /\ job_list' = s.job_list
    /\ dequeued' = s.dequeued
    /\ inflight' = s.inflight
    /\ polls' = s.polls
    /\ downloads' = s.downloads
    /\ archives' = s.archives
    /\ metadata_files' = s.metadata_files
    /\ limit_emitted' = s.limit_emitted
    /\ halt' = s.halt
    /\ started' = s.started
    /\ undelayed' = s.undelayed
    /\ paused' = s.paused
    /\ lifetime_submitted' = s.lifetime_submitted
    /\ starts' = s.starts

\* AlphaFoldBatchHandler.__init__
InitBatch ==
    /\ jobs_queue = <<>> /\ completed_jobs = <<>> /\ failed_jobs = <<>>
    /\ current_job = None
    /\ is_running = FALSE /\ should_stop = FALSE
    /\ jobs_submitted_today = 0 /\ max_daily_jobs = DefaultMaxDailyJobs
    /\ monitor_timer = FALSE /\ single_shots = 0 /\ connected = FALSE
    /\ job_info = [j \in Job |-> NewJob]
    /\ results_summary = [total_jobs |-> 0, successful |-> 0, failed |-> 0]
    /\ job_list = <<>> /\ dequeued = <<>> /\ inflight = {}
    /\ polls = 0
    /\ downloads = [j \in Job |-> 0] /\ archives = [j \in Job |-> FALSE]
    /\ metadata_files = [j \in Job |-> 0]
    /\ limit_emitted = FALSE /\ halt = "none" /\ started = FALSE
    /\ undelayed = FALSE /\ paused = FALSE
    /\ lifetime_submitted = 0 /\ starts = 0

\* ------------------------------------------------ AlphaFoldBatchHandler
\* failed_jobs.append(current_job) with current_job['error'] = err, then
\* job_failed.emit; the job is no longer awaited.
RecordFailedUnlisted(s, err) ==
    [s EXCEPT !.job_info[s.current_job].error = err,
              !.inflight = @ \ {s.current_job}]

RecordFailed(s, err) ==
    [s EXCEPT !.job_info[s.current_job].error = err,
              !.failed_jobs = Append(@, s.current_job),
              !.inflight = @ \ {s.current_job}]

\* QTimer.singleShot(job_submission_delay * 1000, self._process_next_job)
ScheduleNext(s) == [s EXCEPT !.single_shots = @ + 1]

\* job.get(key, 'N/A') of _create_csv_summary on a key that is set or not.
GetOrNA(present, value) == IF present THEN value ELSE "N/A"

CsvRowStatusNA(j, d) ==
    [job_name |-> j,
     job_id |-> GetOrNA(d.job_id, "id"),
     status |-> GetOrNA(d.status # "absent", d.status),
     submission_time |-> GetOrNA(d.job_id, "time"),
     download_time |-> GetOrNA(d.results_path, "time"),
     results_path |-> GetOrNA(d.results_path, "dir"),
     error |-> GetOrNA(d.error # "absent", d.error)]

\* The row of one job dict d of job j: 'job_id' and 'submission_time' are set
\* together (lines 200-201), as are 'results_path' and 'download_time'
\* (284-285); a missing 'status' is rendered as 'Failed'.
CsvRow(j, d) ==
    [job_name |-> j,
     job_id |-> GetOrNA(d.job_id, "id"),
     status |-> IF d.status = "absent" THEN "Failed" ELSE d.status,
     submission_time |-> GetOrNA(d.job_id, "time"),
     download_time |-> GetOrNA(d.results_path, "time"),
     results_path |-> GetOrNA(d.results_path, "dir"),
     error |-> GetOrNA(d.error # "absent", d.error)]

\* _create_csv_summary, as _finalize_batch calls it on the controller s: the
\* content of batch_summary.csv, one row per entry of completed_jobs +
\* failed_jobs, written only if there is a row; an exception of pandas or of
\* the write becomes a warning and leaves no new file. Nothing reads the file
\* back, so it is kept as a function of the controller at its halt.
create_csv_summary(s, writable) ==
    LET all_jobs == s.completed_jobs \o s.failed_jobs
        csv_data == [i \in 1..Len(all_jobs) |-> CsvRow(all_jobs[i], s.job_info[all_jobs[i]])]
    IN  IF writable /\ csv_data # <<>>
        THEN [written |-> TRUE, rows |-> csv_data]
        ELSE [written |-> FALSE, rows |-> <<>>]

\* _finalize_batch: the summary's counts are taken and batch_completed is
\* emitted; results_summary['completed_jobs'] and ['failed_jobs'] are set to
\* the handler's own list objects, so they are read as completed_jobs and
\* failed_jobs.
finalize_batch(s, cause) ==
    [s EXCEPT !.is_running = FALSE,
              !.monitor_timer = FALSE,
              !.results_summary = [@ EXCEPT !.successful = Len(s.completed_jobs),
                                            !.failed = Len(s.failed_jobs)],
              !.halt = cause]

\* _organize_job_results: with a zip in job_dir the loop body evaluates
\* job_dir / "extracted" on the str job_dir, a TypeError that the method's own
\* except turns into a warning: job_metadata.json is not written.
organize_job_results(s, has_zip) == s

\* _download_job_results
download_job_results(s, dl, has_zip) ==
    LET j == s.current_job
        t == [s EXCEPT !.downloads[j] = Min(@ + 1, 2)]
    IN  CASE dl = "ok" ->
               ScheduleNext(organize_job_results(
                   [t EXCEPT !.job_info[j].results_path = TRUE,
                             !.completed_jobs = Append(@, j),
                             !.inflight = @ \ {j},
                             !.archives[j] = has_zip], has_zip))
          [] dl = "fail" -> ScheduleNext(RecordFailed(t, ErrDownloadFailed))
          [] OTHER -> ScheduleNext(RecordFailed(t, ErrDownloadRaised))

submit_current_job_aborting(s0, sub) ==
    LET s == [s0 EXCEPT !.undelayed = @ \/ s0.single_shots > 0]
        j == s.current_job
        outcome == IF s.connected THEN sub ELSE "raise"
    IN  CASE outcome = "ok" ->
               [s EXCEPT !.job_info[j].job_id = TRUE,
                         !.job_info[j].status = "Submitted",
                         !.jobs_submitted_today = @ + 1,
                         !.lifetime_submitted = Min(@ + 1, LifetimeCap),
                         !.monitor_timer = TRUE,
                         !.inflight = @ \cup {j},
                         !.polls = 0,
                         !.downloads[j] = 0,
                         !.archives[j] = FALSE,
                         !.metadata_files[j] = 0]
          [] outcome = "fail" -> RecordFailed(s, ErrSubmitFailed)
          [] OTHER -> RecordFailed(s, ErrSubmitRaised)

submit_current_job_charging_failures(s0, sub) ==
    LET s == [s0 EXCEPT !.undelayed = @ \/ s0.single_shots > 0]
        j == s.current_job
        outcome == IF s.connected THEN sub ELSE "raise"
        charged == [s EXCEPT !.jobs_submitted_today = @ + 1]
    IN  CASE outcome = "ok" ->
               [s EXCEPT !.job_info[j].job_id = TRUE,
                         !.job_info[j].status = "Submitted",
                         !.jobs_submitted_today = @ + 1,
                         !.lifetime_submitted = Min(@ + 1, LifetimeCap),
                         !.monitor_timer = TRUE,
                         !.inflight = @ \cup {j},
                         !.polls = 0,
                         !.downloads[j] = 0,
                         !.archives[j] = FALSE,
                         !.metadata_files[j] = 0]
          [] outcome = "fail" -> ScheduleNext(RecordFailed(charged, ErrSubmitFailed))
          [] OTHER -> ScheduleNext(RecordFailed(charged, ErrSubmitRaised))

\* _submit_current_job; without an uploader the setup call raises. A pending
\* singleShot is the delay that began when the last job was recorded.
submit_current_job(s0, sub) ==
    LET s == [s0 EXCEPT !.undelayed = @ \/ s0.single_shots > 0]
        j == s.current_job
        outcome == IF s.connected THEN sub ELSE "raise"
    IN  CASE outcome = "ok" ->
               [s EXCEPT !.job_info[j].job_id = TRUE,
                         !.job_info[j].status = "Submitted",
                         !.jobs_submitted_today = @ + 1,
                         !.lifetime_submitted = Min(@ + 1, LifetimeCap),
                         !.monitor_timer = TRUE,
                         !.inflight = @ \cup {j},
                         !.polls = 0,
                         !.downloads[j] = 0,
                         !.archives[j] = FALSE,
                         !.metadata_files[j] = 0]
          [] outcome = "fail" -> ScheduleNext(RecordFailed(s, ErrSubmitFailed))
          [] OTHER -> ScheduleNext(RecordFailed(s, ErrSubmitRaised))

LimitExceeded(s) == s.jobs_submitted_today > s.max_daily_jobs

\* The daily-limit test of _process_next_job.
LimitReached(s) == s.jobs_submitted_today >= s.max_daily_jobs

process_next_job_unchecked(s, sub) ==
    IF LimitReached(s)
    THEN finalize_batch([s EXCEPT !.limit_emitted = TRUE], "limit")
    ELSE IF s.jobs_queue = <<>> THEN finalize_batch(s, "empty")
    ELSE submit_current_job(
             [s EXCEPT !.current_job = Head(s.jobs_queue),
                       !.jobs_queue = Tail(s.jobs_queue),
                       !.dequeued = Append(@, Head(s.jobs_queue))], sub)

process_next_job_unannounced(s, sub) ==
    IF s.should_stop \/ ~s.is_running THEN s
    ELSE IF LimitReached(s) THEN finalize_batch(s, "limit")
    ELSE IF s.jobs_queue = <<>> THEN finalize_batch(s, "empty")
    ELSE submit_current_job(
             [s EXCEPT !.current_job = Head(s.jobs_queue),
                       !.jobs_queue = Tail(s.jobs_queue),
                       !.dequeued = Append(@, Head(s.jobs_queue))], sub)

process_next_job_lifo(s, sub) ==
    IF s.should_stop \/ ~s.is_running THEN s
    ELSE IF LimitReached(s)
         THEN finalize_batch([s EXCEPT !.limit_emitted = TRUE], "limit")
    ELSE IF s.jobs_queue = <<>> THEN finalize_batch(s, "empty")
    ELSE submit_current_job(
             [s EXCEPT !.current_job = s.jobs_queue[Len(s.jobs_queue)],
                       !.jobs_queue = SubSeq(s.jobs_queue, 1, Len(s.jobs_queue) - 1),
                       !.dequeued = Append(@, s.jobs_queue[Len(s.jobs_queue)])], sub)

\* _process_next_job
process_next_job(s, sub) ==
    IF s.should_stop \/ ~s.is_running THEN s
    ELSE IF LimitReached(s)
         THEN finalize_batch([s EXCEPT !.limit_emitted = TRUE], "limit")
    ELSE IF s.jobs_queue = <<>> THEN finalize_batch(s, "empty")
    ELSE submit_current_job(
             [s EXCEPT !.current_job = Head(s.jobs_queue),
                       !.jobs_queue = Tail(s.jobs_queue),
                       !.dequeued = Append(@, Head(s.jobs_queue))], sub)

initialize_alphafold_connection_unfinalized(s, login) ==
    IF login = "ok" THEN [s EXCEPT !.connected = TRUE]
    ELSE [s EXCEPT !.halt = "login"]

\* _initialize_alphafold_connection
initialize_alphafold_connection(s, login) ==
    IF login = "ok" THEN [s EXCEPT !.connected = TRUE]
    ELSE finalize_batch(s, "login")

\* start_batch(job_list, max_jobs); max_jobs = 0 stands for None.
start_batch(s, jl, max_jobs, login, sub) ==
    IF s.is_running THEN s
    ELSE process_next_job(
           initialize_alphafold_connection(
             [s EXCEPT !.max_daily_jobs = IF max_jobs # 0 THEN max_jobs ELSE @,
                       !.jobs_queue = jl,
                       !.completed_jobs = <<>>,
                       !.failed_jobs = <<>>,
                       !.jobs_submitted_today = 0,
                       !.results_summary = [@ EXCEPT !.total_jobs = Len(jl),
                                                     !.successful = 0,
                                                     !.failed = 0],
                       !.is_running = TRUE,
                       !.should_stop = FALSE,
                       !.job_list = jl, !.dequeued = <<>>, !.inflight = {},
                       !.limit_emitted = FALSE, !.halt = "none",
                       !.started = TRUE, !.starts = @ + 1, !.undelayed = FALSE,
                       !.paused = FALSE], login), sub)

\* stop_batch
stop_batch(s) ==
    finalize_batch([s EXCEPT !.should_stop = TRUE,
                             !.is_running = FALSE,
                             !.monitor_timer = FALSE,
                             !.paused = FALSE], "stop")

\* pause_batch
pause_batch(s) ==
    [s EXCEPT !.should_stop = TRUE, !.monitor_timer = FALSE, !.paused = TRUE]

\* The test of resume_batch that re-attaches monitoring.
ResumeMonitors(s) ==
    /\ s.current_job # None
    /\ s.job_info[s.current_job].status \in {"Submitted", "Running", "Queued"}

\* resume_batch
resume_batch(s0, sub) ==
    LET s == [s0 EXCEPT !.paused = FALSE] IN
    IF s.is_running THEN s
    ELSE LET t == [s EXCEPT !.should_stop = FALSE, !.is_running = TRUE, !.halt = "none"]
         IN  IF ResumeMonitors(t) THEN [t EXCEPT !.monitor_timer = TRUE]
             ELSE process_next_job(t, sub)

check_current_job_status_unknown_fails(s, poll, dl, has_zip) ==
    IF s.current_job = None \/ s.should_stop THEN s
    ELSE LET j == s.current_job
             outcome == IF s.job_info[j].job_id /\ s.connected THEN poll ELSE "raise"
             t == [s EXCEPT !.polls = Min(@ + 1, PollCap)]
         IN  CASE outcome = "raise" -> t
               [] outcome = "Completed" ->
                    download_job_results(
                        [t EXCEPT !.job_info[j].status = "Completed",
                                  !.monitor_timer = FALSE, !.polls = 0], dl, has_zip)
               [] outcome \in {"Failed", "Unknown"} ->
                    ScheduleNext(RecordFailed(
                        [t EXCEPT !.job_info[j].status = outcome,
                                  !.monitor_timer = FALSE, !.polls = 0], ErrJobFailed))
               [] OTHER -> [t EXCEPT !.job_info[j].status = outcome]

\* check_current_job_status; a job dict without 'job_id' raises KeyError
\* inside the try, like a raising driver call.
check_current_job_status(s, poll, dl, has_zip) ==
    IF s.current_job = None \/ s.should_stop THEN s
    ELSE LET j == s.current_job
             outcome == IF s.job_info[j].job_id /\ s.connected THEN poll ELSE "raise"
             t == [s EXCEPT !.polls = Min(@ + 1, PollCap)]
         IN  CASE outcome = "raise" -> t
               [] outcome = "Completed" ->
                    download_job_results(
                        [t EXCEPT !.job_info[j].status = "Completed",
                                  !.monitor_timer = FALSE, !.polls = 0], dl, has_zip)
               [] outcome = "Failed" ->
                    ScheduleNext(RecordFailed(
                        [t EXCEPT !.job_info[j].status = "Failed",
                                  !.monitor_timer = FALSE, !.polls = 0], ErrJobFailed))
               [] OTHER -> [t EXCEPT !.job_info[j].status = outcome]

\* ------------------------------------------------------------- actions
Bounded(s) == s.single_shots <= MaxShots

StartBatch ==
    /\ variant = "batch"
    /\ ~started
    /\ \E jl \in JobLists, mj \in 0..MaxQuota, login \in LoginOutcomes, sub \in SubmitOutcomes :
         LET s == start_batch(H, jl, mj, login, sub)
         IN  Bounded(s) /\ Commit(s)
    /\ UNCHANGED <<threadVars, queueVars, retryVars, bulkVars, variant>>

StopBatch ==
    /\ started
    /\ Commit(stop_batch(H))
    /\ UNCHANGED <<threadVars, queueVars, retryVars, bulkVars, variant>>

PauseBatch ==
    /\ is_running
    /\ Commit(pause_batch(H))
    /\ UNCHANGED <<threadVars, queueVars, retryVars, bulkVars, variant>>

ResumeBatch ==
    /\ started
    /\ ~is_running \/ paused
    /\ \E sub \in SubmitOutcomes :
         LET s == resume_batch(H, sub)
         IN  Bounded(s) /\ Commit(s)
    /\ UNCHANGED <<threadVars, queueVars, retryVars, bulkVars, variant>>

\* start_batch called again on the same controller after its run ended, as
\* the GUI's resume_batch_submission does with the remaining jobs and no
\* max_jobs.
RestartBatch ==
    /\ variant = "batch"
    /\ started /\ ~is_running
    /\ starts < MaxStarts
    /\ \E jl \in JobLists, login \in LoginOutcomes, sub \in SubmitOutcomes :
         LET s == start_batch(H, jl, None, login, sub)
         IN  Bounded(s) /\ Commit(s)
    /\ UNCHANGED <<threadVars, queueVars, retryVars, bulkVars, variant>>

\* The monitor timer's timeout.
MonitorTick ==
    /\ monitor_timer
    /\ \E poll \in PollOutcomes :
         \E dl \in (IF poll = "Completed" THEN DownloadOutcomes ELSE {"ok"}) :
           \E has_zip \in (IF poll = "Completed" /\ dl = "ok" THEN BOOLEAN ELSE {FALSE}) :
             LET s == check_current_job_status(H, poll, dl, has_zip)
             IN  Bounded(s) /\ Commit(s)
    /\ UNCHANGED <<threadVars, queueVars, retryVars, bulkVars, variant>>

\* A pending singleShot fires.
NextJobCallback ==
    /\ single_shots > 0
    /\ \E sub \in SubmitOutcomes :
         LET s == process_next_job([H EXCEPT !.single_shots = @ - 1], sub)
         IN  Bounded(s) /\ Commit(s)
    /\ UNCHANGED <<threadVars, queueVars, retryVars, bulkVars, variant>>

\* ------------------------------------------------- AlphaFoldJobHandler
\* The monitor's clock counts 30 s units: the sleep after a raising check.
ErrorSleep == 1
\* time.sleep(60) after an unrecognised status.
UnknownSleep == 2
\* check_interval_minutes and timeout_minutes of the download configuration.
CheckInterval == 2
TimeoutUnits == 4

MonitorStatuses == {"completed", "failed", "running", "queued", "pending", "unknown"}

\* batch_info of batch_summary.json; written is FALSE while there is no file.
BatchInfo(total, ok, failed, on_disk) ==
    [written |-> on_disk, total_jobs |-> total, successful_jobs |-> ok, failed_jobs |-> failed]

NoBatchSummary == BatchInfo(0, 0, 0, FALSE)

\* The entry run() appends to failed_jobs for a False from
\* _process_single_job: {'job', 'error', 'timestamp'}. The job id is a local
\* of _process_single_job and is stored neither in the entry nor in the job.
FailedEntry(j) == [job |-> j, error |-> "Processing failed", job_id |-> FALSE]

\* AlphaFoldJobHandler.__init__
InitThread ==
    /\ jobs_to_process = <<>> /\ successful_jobs = <<>> /\ th_failed_jobs = <<>>
    /\ th_should_stop = FALSE
    /\ th_pc = "idle" /\ th_i = 0 /\ th_job_id = FALSE /\ mon_now = 0
    /\ th_summary = NoBatchSummary /\ th_completed_emitted = FALSE
    /\ th_cause = [j \in Job |-> "none"]
    /\ th_submitted = <<>> /\ th_read = "none"

ThisJob == jobs_to_process[th_i + 1]

\* run(): a False from _process_single_job appends the failed entry; the loop
\* then sleeps and takes the next index.
ThreadRecordFailed(cause) ==
    /\ th_failed_jobs' = Append(th_failed_jobs, FailedEntry(ThisJob))
    /\ th_cause' = [th_cause EXCEPT ![ThisJob] = cause]
    /\ th_i' = th_i + 1
    /\ th_pc' = "loop"
    /\ UNCHANGED successful_jobs

\* run(): a True from _process_single_job appends the job itself.
ThreadRecordSuccess ==
    /\ successful_jobs' = Append(successful_jobs, ThisJob)
    /\ th_cause' = [th_cause EXCEPT ![ThisJob] = "downloaded"]
    /\ th_i' = th_i + 1
    /\ th_pc' = "loop"
    /\ UNCHANGED th_failed_jobs

\* set_jobs(jobs_list) and QThread.start()
SetJobs ==
    /\ variant = "thread"
    /\ th_pc = "idle"
    /\ \E jl \in JobLists : jobs_to_process' = jl
    /\ th_pc' = "setup"
    /\ th_i' = 0
    /\ th_submitted' = <<>> /\ th_read' = "none"
    /\ UNCHANGED <<successful_jobs, th_failed_jobs, th_should_stop, th_job_id, mon_now,
                   th_summary, th_completed_emitted, th_cause, batchVars, queueVars, retryVars, bulkVars, variant>>

\* run(): setup_components(); False returns before the loop and the summary.
ThreadSetup ==
    /\ th_pc = "setup"
    /\ \E ok \in BOOLEAN : th_pc' = IF ok THEN "loop" ELSE "done"
    /\ UNCHANGED <<jobs_to_process, th_submitted, th_read, successful_jobs, th_failed_jobs, th_should_stop, th_i,
                   th_job_id, mon_now, th_summary, th_completed_emitted, th_cause,
                   batchVars, queueVars, retryVars, bulkVars, variant>>

\* run(): the head of the for loop and its should_stop test.
ThreadLoop ==
    /\ th_pc = "loop"
    /\ th_pc' = IF th_i >= Len(jobs_to_process) \/ th_should_stop THEN "summary" ELSE "submit"
    /\ th_read' = "none"
    /\ UNCHANGED <<jobs_to_process, th_submitted, successful_jobs, th_failed_jobs, th_should_stop, th_i,
                   th_job_id, mon_now, th_summary, th_completed_emitted, th_cause,
                   batchVars, queueVars, retryVars, bulkVars, variant>>

\* _process_single_job, step 1: job_submitter.submit_job
ThreadSubmit ==
    /\ th_pc = "submit"
    /\ \E sub \in SubmitOutcomes :
         IF sub = "ok"
         THEN /\ th_job_id' = TRUE /\ mon_now' = 0 /\ th_pc' = "monitor"
              /\ UNCHANGED <<successful_jobs, th_failed_jobs, th_i, th_cause>>
         ELSE /\ th_job_id' = FALSE /\ ThreadRecordFailed("submit")
              /\ UNCHANGED mon_now
    /\ th_submitted' = Append(th_submitted, ThisJob)
    /\ UNCHANGED <<jobs_to_process, th_read, th_should_stop, th_summary, th_completed_emitted,
                   batchVars, queueVars, retryVars, bulkVars, variant>>

\* AlphaFoldJobMonitor.monitor_job_until_completion: one turn of its while
\* loop, or its exit when datetime.now() has reached timeout_time.
monitor_job_until_completion(poll) ==
    IF mon_now < TimeoutUnits
    THEN CASE poll = "completed" -> [final |-> "completed", now |-> mon_now]
           [] poll = "failed" -> [final |-> "failed", now |-> mon_now]
           [] poll \in {"running", "queued", "pending"} ->
                [final |-> "none", now |-> mon_now + CheckInterval]
           [] poll = "raise" -> [final |-> "none", now |-> mon_now + ErrorSleep]
           [] OTHER -> [final |-> "none", now |-> mon_now + UnknownSleep]
    ELSE [final |-> "timeout", now |-> mon_now]

\* _process_single_job, step 2: anything but "completed" returns False.
ThreadMonitor ==
    /\ th_pc = "monitor"
    /\ \E poll \in MonitorStatuses \cup {"raise"} :
         LET r == monitor_job_until_completion(poll)
         IN  /\ mon_now' = r.now
             /\ th_read' = IF r.final = "timeout" THEN "none" ELSE poll
             /\ CASE r.final = "none" ->
                       UNCHANGED <<th_pc, th_i, successful_jobs, th_failed_jobs, th_cause>>
                  [] r.final = "completed" ->
                       /\ th_pc' = "download"
                       /\ UNCHANGED <<th_i, successful_jobs, th_failed_jobs, th_cause>>
                  [] OTHER -> ThreadRecordFailed(r.final)
    /\ UNCHANGED <<jobs_to_process, th_submitted, th_should_stop, th_job_id, th_summary,
                   th_completed_emitted, batchVars, queueVars, retryVars, bulkVars, variant>>

\* _process_single_job, step 3: job_downloader.download_job_results
ThreadDownload ==
    /\ th_pc = "download"
    /\ \E dl \in DownloadOutcomes :
         IF dl = "ok" THEN ThreadRecordSuccess ELSE ThreadRecordFailed("download")
    /\ UNCHANGED <<jobs_to_process, th_submitted, th_read, th_should_stop, th_job_id, mon_now, th_summary,
                   th_completed_emitted, batchVars, queueVars, retryVars, bulkVars, variant>>

\* _generate_batch_summary: a failed write raises before batch_completed.emit.
generate_batch_summary(written) ==
    /\ th_summary' = IF written
                     THEN BatchInfo(Len(jobs_to_process), Len(successful_jobs),
                                    Len(th_failed_jobs), TRUE)
                     ELSE th_summary
    /\ th_completed_emitted' = written

ThreadSummary ==
    /\ th_pc = "summary"
    /\ \E written \in BOOLEAN : generate_batch_summary(written)
    /\ th_pc' = "done"
    /\ UNCHANGED <<jobs_to_process, th_submitted, th_read, successful_jobs, th_failed_jobs, th_should_stop, th_i,
                   th_job_id, mon_now, th_cause, batchVars, queueVars, retryVars, bulkVars, variant>>

\* stop_processing, called from the GUI thread while run() is under way.
StopProcessing ==
    /\ th_pc \notin {"idle", "done"}
    /\ ~th_should_stop
    /\ th_should_stop' = TRUE
    /\ UNCHANGED <<jobs_to_process, th_submitted, th_read, successful_jobs, th_failed_jobs, th_pc, th_i,
                   th_job_id, mon_now, th_summary, th_completed_emitted, th_cause,
                   batchVars, queueVars, retryVars, bulkVars, variant>>

\* --------------------------------------------------------- BatchJobQueue
QueueData(jq, cj, fj, on_disk) ==
    [exists |-> on_disk, valid |-> on_disk,
     jobs_queue |-> jq, completed_jobs |-> cj, failed_jobs |-> fj]

NoQueueFile == QueueData(<<>>, <<>>, <<>>, FALSE)

\* The file open(queue_file, 'w') created and a failed json.dump left behind.
TruncatedQueueFile == [NoQueueFile EXCEPT !.exists = TRUE]

\* How the write of save_queue ends: done, open() raised, json.dump raised.
QueueWriteOutcomes == {"ok", "open_failed", "dump_failed"}

NoSave ==
    [called |-> FALSE, written |-> "ok",
     jobs_queue |-> <<>>, completed_jobs |-> <<>>, failed_jobs |-> <<>>]

InitQueue ==
    /\ queue_file = NoQueueFile /\ snap_live = {} /\ resumed = FALSE
    /\ last_save = NoSave

\* save_queue(jobs_queue, completed_jobs, failed_jobs): queue_data goes to the
\* file under its three keys; a failed write is printed and nothing is raised.
save_queue(jq, cj, fj, written) ==
    CASE written = "ok" -> QueueData(jq, cj, fj, TRUE)
      [] written = "open_failed" -> queue_file
      [] OTHER -> TruncatedQueueFile

EmptyLists == [jobs_queue |-> <<>>, completed_jobs |-> <<>>, failed_jobs |-> <<>>]

load_queue_swapped ==
    IF ~queue_file.exists \/ ~queue_file.valid
    THEN EmptyLists
    ELSE [jobs_queue |-> queue_file.jobs_queue,
          completed_jobs |-> queue_file.failed_jobs,
          failed_jobs |-> queue_file.completed_jobs]

\* load_queue(): the three lists read from the file by key; three empty lists
\* when there is no file or json.load raises.
load_queue ==
    IF ~queue_file.exists \/ ~queue_file.valid
    THEN EmptyLists
    ELSE [jobs_queue |-> queue_file.jobs_queue,
          completed_jobs |-> queue_file.completed_jobs,
          failed_jobs |-> queue_file.failed_jobs]

\* A controller as __init__ leaves it, with job dicts as read back from disk.
FreshController ==
    [jobs_queue |-> <<>>, completed_jobs |-> <<>>, failed_jobs |-> <<>>,
     current_job |-> None, is_running |-> FALSE, should_stop |-> FALSE,
     jobs_submitted_today |-> 0, max_daily_jobs |-> DefaultMaxDailyJobs,
     monitor_timer |-> FALSE, single_shots |-> 0, connected |-> FALSE,
     job_info |-> [j \in Job |-> NewJob],
     results_summary |-> [total_jobs |-> 0, successful |-> 0, failed |-> 0],
     job_list |-> <<>>, dequeued |-> <<>>, inflight |-> {}, polls |-> 0,
     downloads |-> [j \in Job |-> 0], archives |-> [j \in Job |-> FALSE],
     metadata_files |-> [j \in Job |-> 0],
     limit_emitted |-> FALSE, halt |-> "none", started |-> FALSE,
     undelayed |-> FALSE, paused |-> FALSE, lifetime_submitted |-> 0,
     starts |-> 0]

\* The caller serialises the controller's three lists in the middle of a run.
SaveQueue ==
    /\ started /\ is_running /\ ~resumed
    /\ \E written \in QueueWriteOutcomes :
         /\ queue_file' = save_queue(jobs_queue, completed_jobs, failed_jobs, written)
         /\ last_save' = [called |-> TRUE, written |-> written,
                          jobs_queue |-> jobs_queue,
                          completed_jobs |-> completed_jobs,
                          failed_jobs |-> failed_jobs]
         /\ snap_live' = IF written # "ok" THEN snap_live
                         ELSE Range(job_list) \ (Range(completed_jobs) \cup Range(failed_jobs))
    /\ UNCHANGED <<resumed, batchVars, threadVars, retryVars, bulkVars, variant>>

\* After an interruption the queue is restored and the run continued: a new
\* controller is started on the pending list load_queue() returns.
RestoreAndContinue ==
    /\ queue_file.exists /\ ~resumed
    /\ \E mj \in 0..MaxQuota, login \in LoginOutcomes, sub \in SubmitOutcomes :
         Commit(start_batch(FreshController, load_queue.jobs_queue, mj, login, sub))
    /\ resumed' = TRUE
    /\ UNCHANGED <<queue_file, snap_live, last_save, threadVars, retryVars, bulkVars, variant>>

\* ------------------------------------- NCBIBulkFetcher.retry_failed_downloads
DefaultMaxRetries == 3

Gene == 1..NGenes

RetryOutcomes == {"ok", "no_results", "no_file", "raise"}

WriteOutcomes == {"ok", "open_failed", "dump_failed"}

\* The max_retries a caller passes to retry_failed_downloads: the default and
\* one retry fewer.
MaxRetriesArgs == {DefaultMaxRetries - 1, DefaultMaxRetries}

\* An entry of failed_genes as search_and_download_bulk appends it.
FailedGene(g, n) == [gene_info |-> g, retry_count |-> n, retry_error |-> FALSE]

\* An entry of successful_results; retry_attempt marks those a retry pass added.
ResultInfo(g, retried) == [gene_info |-> g, retry_attempt |-> retried]

\* The summaries search_and_download_bulk writes: the first k items downloaded,
\* the others failed in the search (retry_count 0) or in the download
\* (retry_count max_retries).
Manifests ==
    { [state |-> "written",
       successful_results |-> [i \in 1..k |-> ResultInfo(i, FALSE)],
       failed_genes |-> [i \in 1..(NGenes - k) |-> FailedGene(k + i, rc[k + i])],
       successful_downloads |-> k,
       failed_downloads |-> NGenes - k] :
         k \in 0..NGenes, rc \in [Gene -> {0, DefaultMaxRetries}] }

\* A summary file that does not exist, and one a failed dump left behind.
NoSummary ==
    [state |-> "none", successful_results |-> <<>>, failed_genes |-> <<>>,
     successful_downloads |-> 0, failed_downloads |-> 0]

TruncatedSummary == [NoSummary EXCEPT !.state = "truncated"]

Readable(f) == f.state = "written"

InitRetryIdle ==
    /\ retry_pc = "idle" /\ retry_i = 0 /\ retry_pass = 0
    /\ retry_results = <<>> /\ still_failed = <<>>
    /\ retry_should_stop = FALSE
    /\ max_retries = DefaultMaxRetries
    /\ previous_summary = NoSummary
    /\ retry_succeeded = 0

InitRetry == summary_file = NoSummary /\ InitRetryIdle

InitManifest == summary_file \in Manifests /\ InitRetryIdle

StillFailedUnlessRaised(failed_gene, outcome) ==
    IF outcome \in {"ok", "raise"} THEN <<>> ELSE <<failed_gene>>

\* What one failed item adds to still_failed.
StillFailedItem(failed_gene, outcome) ==
    CASE outcome = "ok" -> <<>>
      [] outcome = "raise" -> <<[failed_gene EXCEPT !.retry_error = TRUE]>>
      [] OTHER -> <<failed_gene>>

\* What one failed item adds to retry_results.
RetryResultItem(failed_gene, outcome) ==
    IF outcome = "ok" THEN <<ResultInfo(failed_gene.gene_info, TRUE)>> ELSE <<>>

\* updated_summary as lines 346-353 build it from previous_summary.
updated_summary(prev, rr, sf) ==
    [state |-> "written",
     successful_results |-> prev.successful_results \o rr,
     failed_genes |-> sf,
     successful_downloads |-> prev.successful_downloads + Len(rr),
     failed_downloads |-> Len(sf)]

\* A call with some max_retries: load the summary; return at once if it lists
\* no failed gene. The body never reads max_retries.
RetryStart ==
    /\ retry_pc \in {"idle", "done", "returned", "raised"}
    /\ retry_pass < MaxPasses
    /\ retry_pass' = retry_pass + 1
    /\ max_retries' \in MaxRetriesArgs
    /\ retry_i' = 0 /\ retry_results' = <<>> /\ still_failed' = <<>>
    /\ retry_succeeded' = 0
    /\ IF Readable(summary_file)
       THEN /\ previous_summary' = summary_file
            /\ retry_pc' = IF summary_file.failed_genes = <<>> THEN "returned" ELSE "loop"
       ELSE /\ previous_summary' = NoSummary
            /\ retry_pc' = "raised"
    /\ UNCHANGED <<summary_file, retry_should_stop,
                   batchVars, threadVars, queueVars, bulkVars, variant>>

\* One iteration of the loop over failed_genes.
RetryItem ==
    /\ retry_pc = "loop"
    /\ retry_i < Len(previous_summary.failed_genes)
    /\ ~retry_should_stop
    /\ \E outcome \in RetryOutcomes :
         LET failed_gene == previous_summary.failed_genes[retry_i + 1] IN
         /\ retry_results' = retry_results \o RetryResultItem(failed_gene, outcome)
         /\ still_failed' = still_failed \o StillFailedItem(failed_gene, outcome)
         /\ retry_succeeded' = retry_succeeded + (IF outcome = "ok" THEN 1 ELSE 0)
    /\ retry_i' = retry_i + 1
    /\ UNCHANGED <<summary_file, retry_pc, retry_pass, retry_should_stop, max_retries,
                   previous_summary, batchVars, threadVars, queueVars, bulkVars, variant>>

\* NCBIBulkFetcher.stop_processing, called by a holder of the fetcher while
\* the loop of retry_failed_downloads is under way.
RetryStop ==
    /\ retry_pc = "loop"
    /\ ~retry_should_stop
    /\ retry_should_stop' = TRUE
    /\ UNCHANGED <<summary_file, retry_pc, retry_i, retry_pass, retry_results, still_failed,
                   max_retries, previous_summary, retry_succeeded,
                   batchVars, threadVars, queueVars, bulkVars, variant>>

\* After the loop: build the updated summary and rewrite the file.
RetryWrite ==
    /\ retry_pc = "loop"
    /\ retry_i = Len(previous_summary.failed_genes) \/ retry_should_stop
    /\ \E w \in WriteOutcomes :
         /\ summary_file' =
              CASE w = "ok" -> updated_summary(previous_summary, retry_results, still_failed)
                [] w = "open_failed" -> summary_file
                [] OTHER -> TruncatedSummary
         /\ retry_pc' = IF w = "ok" THEN "done" ELSE "raised"
    /\ UNCHANGED <<retry_i, retry_pass, retry_results, still_failed, retry_should_stop,
                   max_retries,
                   previous_summary, retry_succeeded,
                   batchVars, threadVars, queueVars, bulkVars, variant>>

\* ----------------------------------- NCBIBulkFetcher.search_and_download_bulk
GeneNames == {"BRCA1", "TP53"}

Organisms == {"human", "mouse"}

\* The rows load_gene_list_from_excel yields: two rows may name the same gene.
GeneInfos == {[gene_name |-> n, organism |-> o] : n \in GeneNames, o \in Organisms}

GeneLists == UNION {[1..k -> GeneInfos] : k \in 0..MaxGenes}

SearchOutcomes == {"found", "empty", "raise"}

SequenceOutcomes == {"ok", "none", "raise"}

InitBulkIdle ==
    /\ gene_list = <<>> /\ bulk_max_retries = DefaultMaxRetries
    /\ bulk_pc = "idle" /\ bulk_i = 0
    /\ results = <<>> /\ failed_genes = <<>>
    /\ bulk_summary = NoSummary
    /\ bulk_attempts = <<>>

\* The while loop of lines 183-220 from the state st, the k-th call of
\* download_sequence giving outs[k].
RECURSIVE download_with_retries(_, _, _, _)
download_with_retries(st, gene_info, outs, maxr) ==
    IF st.retry_count < maxr /\ ~st.download_success
    THEN LET o == outs[st.attempts + 1]
             tried == [st EXCEPT !.attempts = @ + 1]
         IN  download_with_retries(
               CASE o = "ok" ->
                      [tried EXCEPT !.results = Append(@, ResultInfo(gene_info, FALSE)),
                                    !.download_success = TRUE]
                 [] o = "none" -> [tried EXCEPT !.retry_count = @ + 1]
                 [] OTHER ->
                      [tried EXCEPT
                         !.retry_count = @ + 1,
                         !.failed_genes =
                            IF st.retry_count + 1 >= maxr
                            THEN Append(@, FailedGene(gene_info, st.retry_count + 1))
                            ELSE @],
               gene_info, outs, maxr)
    ELSE st

\* any(f['gene_info']['gene_name'] == gene_name for f in self.failed_genes)
NamedInFailed(fg, gene_name) ==
    \E k \in 1..Len(fg) : fg[k].gene_info.gene_name = gene_name

\* The body of the loop for one item: what it leaves in self.failed_genes and
\* self.results, and how many downloads it attempted.
process_gene(fg, res, gene_info, search, outs, maxr) ==
    IF search \in {"empty", "raise"}
    THEN [failed_genes |-> Append(fg, FailedGene(gene_info, 0)),
          results |-> res, attempts |-> 0]
    ELSE LET st == download_with_retries(
                     [retry_count |-> 0, download_success |-> FALSE,
                      failed_genes |-> fg, results |-> res, attempts |-> 0],
                     gene_info, outs, maxr)
         IN  [failed_genes |->
                IF ~st.download_success /\ ~NamedInFailed(st.failed_genes, gene_info.gene_name)
                THEN Append(st.failed_genes, FailedGene(gene_info, maxr))
                ELSE st.failed_genes,
              results |-> st.results,
              attempts |-> st.attempts]

\* The summary of lines 245-254.
bulk_summary_of(gl, res, fg) ==
    [state |-> "written",
     total_genes |-> Len(gl),
     successful_downloads |-> Len(res),
     failed_downloads |-> Len(fg),
     successful_results |-> res,
     failed_genes |-> fg]

\* A call: the result lists are reset and the loop begins.
BulkStart ==
    /\ bulk_pc = "idle"
    /\ gene_list' \in GeneLists
    /\ bulk_max_retries' \in 0..MaxBulkRetries
    /\ bulk_pc' = "loop" /\ bulk_i' = 0
    /\ results' = <<>> /\ failed_genes' = <<>>
    /\ bulk_attempts' = <<>>
    /\ UNCHANGED <<bulk_summary, batchVars, threadVars, queueVars, retryVars, variant>>

\* One iteration of the loop over gene_list.
BulkItem ==
    /\ bulk_pc = "loop"
    /\ bulk_i < Len(gene_list)
    /\ ~retry_should_stop
    /\ \E search \in SearchOutcomes, outs \in [1..bulk_max_retries -> SequenceOutcomes] :
         LET r == process_gene(failed_genes, results, gene_list[bulk_i + 1],
                               search, outs, bulk_max_retries)
         IN  /\ failed_genes' = r.failed_genes
             /\ results' = r.results
             /\ bulk_attempts' = Append(bulk_attempts, r.attempts)
    /\ bulk_i' = bulk_i + 1
    /\ UNCHANGED <<gene_list, bulk_max_retries, bulk_pc, bulk_summary,
                   batchVars, threadVars, queueVars, retryVars, variant>>

\* After the loop: build the summary, write it and return it.
BulkWrite ==
    /\ bulk_pc = "loop"
    /\ bulk_i = Len(gene_list) \/ retry_should_stop
    /\ \E w \in WriteOutcomes :
         /\ bulk_summary' =
              CASE w = "ok" -> bulk_summary_of(gene_list, results, failed_genes)
                [] w = "open_failed" -> bulk_summary
                [] OTHER -> TruncatedSummary
         /\ bulk_pc' = IF w = "ok" THEN "returned" ELSE "raised"
    /\ UNCHANGED <<gene_list, bulk_max_retries, bulk_i, results, failed_genes, bulk_attempts,
                   batchVars, threadVars, queueVars, retryVars, variant>>


\* ------------------------------------------------------ specifications
\* AlphaFoldBatchHandler under every interleaving of its public calls with
\* its timers.
Init ==
    InitBatch /\ InitThread /\ InitQueue /\ InitRetry /\ InitBulkIdle /\ variant = "batch"

Next ==
    \/ StartBatch
    \/ StopBatch
    \/ PauseBatch
    \/ ResumeBatch
    \/ MonitorTick
    \/ NextJobCallback

Spec == Init /\ [][Next]_vars

\* One run of either controller, from its start to its end: the batch handler
\* with no stop, pause or resume requested, the job handler with
\* stop_processing possible at any point of run().
InitRun ==
    /\ InitBatch /\ InitThread /\ InitQueue /\ InitRetry /\ InitBulkIdle
    /\ variant \in {"batch", "thread"}

NextRun ==
    \/ StartBatch
    \/ MonitorTick
    \/ NextJobCallback
    \/ SetJobs
    \/ ThreadSetup
    \/ ThreadLoop
    \/ ThreadSubmit
    \/ ThreadMonitor
    \/ ThreadDownload
    \/ ThreadSummary
    \/ StopProcessing

SpecRun == InitRun /\ [][NextRun]_vars

\* Either controller with every public call: the batch handler as in Spec,
\* the job handler as in SpecRun.
NextAll ==
    \/ Next
    \/ SetJobs
    \/ ThreadSetup
    \/ ThreadLoop
    \/ ThreadSubmit
    \/ ThreadMonitor
    \/ ThreadDownload
    \/ ThreadSummary
    \/ StopProcessing

SpecAll == InitRun /\ [][NextAll]_vars

\* A run of the batch handler whose queue a caller saves with BatchJobQueue
\* and later restores.
NextQueue ==
    \/ StartBatch
    \/ MonitorTick
    \/ NextJobCallback
    \/ SaveQueue
    \/ RestoreAndContinue

SpecQueue == Init /\ [][NextQueue]_vars

\* Successive runs of one batch handler: start_batch is called again once the
\* run before has ended.
NextRestart ==
    \/ StartBatch
    \/ MonitorTick
    \/ NextJobCallback
    \/ RestartBatch

SpecRestart == Init /\ [][NextRestart]_vars

\* A run of the batch handler whose queue a caller saves with BatchJobQueue
\* at any point, with load_queue read against the file after each save.
NextSnapshot ==
    \/ StartBatch
    \/ MonitorTick
    \/ NextJobCallback
    \/ SaveQueue

SpecSnapshot == Init /\ [][NextSnapshot]_vars

\* Retry passes of one NCBIBulkFetcher, as RetryFailedThread runs them: the
\* fetcher is private to the thread, so nothing calls its stop_processing.
InitRetryPass ==
    InitBatch /\ InitThread /\ InitQueue /\ InitManifest /\ InitBulkIdle /\ variant = "retry"

NextRetry ==
    \/ RetryStart
    \/ RetryItem
    \/ RetryWrite

SpecRetry == InitRetryPass /\ [][NextRetry]_vars

\* Retry passes of an NCBIBulkFetcher whose holder may call stop_processing.
NextRetryStop ==
    \/ NextRetry
    \/ RetryStop

SpecRetryStop == InitRetryPass /\ [][NextRetryStop]_vars

\* One call of search_and_download_bulk that nothing stops.
InitBulk ==
    InitBatch /\ InitThread /\ InitQueue /\ InitRetry /\ InitBulkIdle /\ variant = "bulk"

NextBulk ==
    \/ BulkStart
    \/ BulkItem
    \/ BulkWrite

SpecBulk == InitBulk /\ [][NextBulk]_vars

\* ------------------------------------------------------------ properties
SubmitErrors == {ErrSubmitFailed, ErrSubmitRaised}

\* The run of the batch handler ended by itself: the limit or the empty queue.
RunEnded == variant = "batch" /\ halt \in {"limit", "empty"}

\* C1: at most one job is in flight: no job is submitted while a job
\* submitted before it is in neither the completed nor the failed list.
C1_AtMostOneInFlight == Cardinality(inflight) <= 1

\* C2: a job list processed to the end of the queue ends with
\* |completed| + |failed| = |L|, in the batch handler at _finalize_batch (also
\* in the summary's counts) and in the job handler at the end of run().
C2_Conservation ==
    /\ (RunEnded /\ jobs_queue = <<>>) =>
          /\ Len(completed_jobs) + Len(failed_jobs) = Len(job_list)
          /\ results_summary.successful + results_summary.failed
                = results_summary.total_jobs
    /\ (variant = "thread" /\ th_pc \in {"summary", "done"}
           /\ th_i = Len(jobs_to_process)) =>
          Len(successful_jobs) + Len(th_failed_jobs) = Len(jobs_to_process)

C2_Witness ==
    /\ RunEnded /\ jobs_queue = <<>> /\ Len(job_list) = NJobs
    /\ completed_jobs # <<>> /\ failed_jobs # <<>>

\* C3: in every step of a run the counter stays within max_daily_jobs, and a
\* job is dequeued only while the counter is below max_daily_jobs.
C3_QuotaInvariant ==
    [][ /\ jobs_submitted_today' <= max_daily_jobs'
        /\ (dequeued' # dequeued /\ dequeued' # <<>>) =>
              (IF started THEN jobs_submitted_today ELSE 0) < max_daily_jobs' ]_vars

C3_Witness ==
    /\ halt = "limit" /\ jobs_queue # <<>>
    /\ jobs_submitted_today = max_daily_jobs

\* C4: a run continued from a restored queue holds exactly the jobs that were
\* not terminal when the queue was saved, each of them once.
C4_ResumeCorrectness ==
    resumed =>
      /\ Range(dequeued) \cup Range(jobs_queue) = snap_live
      /\ NoDup(dequeued \o jobs_queue)

\* C5: monitoring of one job ends within the job timeout: a job is not
\* polled more often than the timeout holds status checks.
C5_MonitoringBounded == polls <= JobTimeoutPolls

\* C6: the manifest a retry pass writes has its successful count raised by
\* the number M of items that succeeded, its failed count lowered by M with
\* N - M items left, and the earlier successful entries kept in place.
C6_RetryManifest ==
    retry_pc = "done" =>
      LET N == Len(previous_summary.failed_genes)
          M == retry_succeeded
          before == previous_summary.successful_results
      IN  /\ summary_file.successful_downloads = previous_summary.successful_downloads + M
          /\ summary_file.failed_downloads = previous_summary.failed_downloads - M
          /\ Len(summary_file.failed_genes) = N - M
          /\ Len(summary_file.successful_results) = Len(before) + M
          /\ SubSeq(summary_file.successful_results, 1, Len(before)) = before

C6_Witness ==
    /\ retry_pc = "done" /\ retry_succeeded >= 1
    /\ summary_file.failed_genes # <<>>
    /\ previous_summary.successful_results # <<>>

\* C7 as stated: with n jobs and max_daily_jobs = m < n, a run that ended has
\* dequeued exactly jobs 1..m, left jobs m+1..n pending in order and emitted
\* the quota-reached event.
C7_QuotaHaltFirstM ==
    (RunEnded /\ max_daily_jobs < Len(job_list)) =>
      /\ dequeued = SubSeq(job_list, 1, max_daily_jobs)
      /\ jobs_queue = SubSeq(job_list, max_daily_jobs + 1, Len(job_list))
      /\ limit_emitted

\* C7, corrected: with n jobs and max_daily_jobs = m < n, a run that ended has
\* dequeued a prefix of the list, as long as m plus the number of failed
\* submissions; the rest is pending in order; the run ended on the limit
\* exactly if m submissions succeeded, and then the quota-reached event was
\* emitted; otherwise the queue is empty.
C7_QuotaHalt ==
    (RunEnded /\ max_daily_jobs < Len(job_list)) =>
      LET d == Len(dequeued)
          submit_failures ==
              Cardinality({j \in Range(failed_jobs) : job_info[j].error \in SubmitErrors})
      IN  /\ dequeued = SubSeq(job_list, 1, d)
          /\ jobs_queue = SubSeq(job_list, d + 1, Len(job_list))
          /\ d = jobs_submitted_today + submit_failures
          /\ (halt = "limit") = (jobs_submitted_today = max_daily_jobs)
          /\ halt = "limit" => limit_emitted
          /\ halt = "empty" => jobs_queue = <<>>

C7_Witness ==
    /\ RunEnded /\ halt = "limit" /\ limit_emitted
    /\ max_daily_jobs < Len(job_list)
    /\ jobs_queue # <<>>
    /\ Len(dequeued) > max_daily_jobs

\* C8: at a halt on the limit or by stop, job_queue.json exists and holds the
\* controller's pending, completed and failed lists.
C8_SnapshotAtHalt ==
    halt \in {"limit", "stop"} =>
      /\ queue_file.exists
      /\ queue_file.jobs_queue = jobs_queue
      /\ queue_file.completed_jobs = completed_jobs
      /\ queue_file.failed_jobs = failed_jobs

\* C9: a job whose download failed after Completed was read is recorded
\* apart from a job whose prediction failed, and its entry carries the job id.
C9_DownloadFailedRecorded ==
    /\ \A j \in Range(failed_jobs) :
          job_info[j].error \in {ErrDownloadFailed, ErrDownloadRaised} =>
            job_info[j].status # "Failed" /\ job_info[j].job_id
    /\ \A i, k \in 1..Len(th_failed_jobs) :
          th_cause[th_failed_jobs[i].job] = "download" =>
            /\ th_failed_jobs[i].job_id
            /\ th_cause[th_failed_jobs[k].job] = "failed" =>
                  th_failed_jobs[i].error # th_failed_jobs[k].error

\* C10: results are downloaded once per job, only after a Completed read, and
\* a job whose download left an archive has exactly one metadata file.
C10_CollectedOnce ==
    \A j \in Job :
      /\ downloads[j] <= 1
      /\ downloads[j] = 1 => job_info[j].status = "Completed"
      /\ archives[j] => metadata_files[j] = 1

\* C11: no submit call is made while the delay that began when the last job
\* was recorded has not run out, also after stop, pause and resume.
C11_DelayBeforeSubmit == ~undelayed

\* C12: once resume_batch has been called after pause_batch, the run goes on:
\* the controller that is running no longer has its stop flag set, so the
\* monitor and the next-job callbacks act again.
C12_ResumeAfterPause == (is_running /\ ~paused) => ~should_stop

\* C13: while the stop flag stays set no job is dequeued or submitted, also
\* by a callback scheduled before the stop; the job handler's loop starts no
\* iteration once stop_processing was called.
C13_NoDequeueAfterStop ==
    [][ /\ (should_stop /\ should_stop') =>
              /\ dequeued' = dequeued
              /\ jobs_queue' = jobs_queue
              /\ jobs_submitted_today' = jobs_submitted_today
        /\ (th_should_stop /\ th_pc = "loop") => th_pc' # "submit" ]_vars

\* Stopped with jobs pending, every dequeued job recorded and no callback
\* left: the callback of the last recorded job fired after the stop.
C13_Witness ==
    /\ halt = "stop" /\ should_stop /\ single_shots = 0
    /\ jobs_queue # <<>> /\ dequeued # <<>>
    /\ Len(dequeued) = Len(completed_jobs) + Len(failed_jobs)
    /\ ~LimitReached(H)

\* How often a job occurs in a list of jobs.
Occurrences(q, j) == Cardinality({i \in 1..Len(q) : q[i] = j})

\* C14: in the summary of a finished or stopped run every job of the input
\* list occurs exactly once in the completed and failed lists taken together,
\* and every failed job carries an error string.
C14_EveryJobTerminal ==
    /\ halt \in {"empty", "limit", "stop"} =>
          /\ \A j \in Range(job_list) :
                Occurrences(completed_jobs \o failed_jobs, j) = 1
          /\ \A j \in Range(failed_jobs) : job_info[j].error # "absent"
    /\ (th_pc = "done" /\ th_summary.written) =>
          /\ \A j \in Range(jobs_to_process) :
                Occurrences(successful_jobs, j)
                  + Cardinality({i \in 1..Len(th_failed_jobs) : th_failed_jobs[i].job = j}) = 1
          /\ \A i \in 1..Len(th_failed_jobs) : th_failed_jobs[i].error # ""

\* C15: the record of a job whose monitoring timed out differs from the
\* record of a job whose prediction failed and of one whose download failed.
C15_TimedOutDistinct ==
    \A i, k \in 1..Len(th_failed_jobs) :
      (/\ th_cause[th_failed_jobs[i].job] = "timeout"
       /\ th_cause[th_failed_jobs[k].job] \in {"failed", "download"}) =>
        th_failed_jobs[i].error # th_failed_jobs[k].error

\* C16: a job whose submit failed or raised is in the failed list once, with
\* the submission error, and in no other list; the run goes on: until it has
\* ended a monitored job or a delayed next-job callback is pending, no submit
\* skips the delay, and a run that ends on the empty queue has dequeued every
\* job. The job handler records such a job once and leaves its loop only at
\* the end of the list or on stop_processing.
C16_SubmitErrorIsolated ==
    /\ \A j \in Range(dequeued) :
          ~job_info[j].job_id =>
            /\ Occurrences(failed_jobs, j) = 1
            /\ j \notin Range(completed_jobs)
            /\ job_info[j].error \in SubmitErrors
    /\ (started /\ halt = "none") => (monitor_timer \/ single_shots > 0)
    /\ ~undelayed
    /\ halt = "empty" => dequeued = job_list
    /\ \A j \in Job :
          th_cause[j] = "submit" =>
            /\ Cardinality({i \in 1..Len(th_failed_jobs) : th_failed_jobs[i].job = j}) = 1
            /\ Occurrences(successful_jobs, j) = 0
    /\ (th_pc = "summary" /\ ~th_should_stop) => th_i = Len(jobs_to_process)

\* The first job's submission failed and the second job was submitted.
C16_Witness ==
    /\ Len(dequeued) >= 2
    /\ job_info[dequeued[1]].error \in SubmitErrors
    /\ job_info[dequeued[2]].job_id

\* C17: every item a retry pass re-attempted without success is written back
\* with its retry_count raised by one and with a retry error note, and no
\* item the pass downloaded is in the failed list it writes.
C17_RetryCountIncremented ==
    retry_pc = "done" =>
      LET old == previous_summary.failed_genes
          new == summary_file.failed_genes
      IN  /\ \A i \in 1..Len(new) :
                \E k \in 1..Len(old) :
                  /\ old[k].gene_info = new[i].gene_info
                  /\ new[i].retry_count = old[k].retry_count + 1
                  /\ new[i].retry_error
          /\ \A i \in 1..Len(retry_results) :
                \A k \in 1..Len(new) : new[k].gene_info # retry_results[i].gene_info

\* C18: a retry pass re-attempts no item whose retry_count exceeds the
\* max_retries of the call, and such an item is still in the failed list the
\* pass writes.
C18_MaxRetriesGate ==
    LET old == previous_summary.failed_genes IN
    /\ retry_pc \in {"loop", "done"} =>
          \A i \in 1..retry_i : old[i].retry_count <= max_retries
    /\ retry_pc = "done" =>
          \A i \in 1..Len(old) :
            old[i].retry_count > max_retries =>
              \E k \in 1..Len(summary_file.failed_genes) :
                summary_file.failed_genes[k].gene_info = old[i].gene_info

C22_MonitoringExits ==
    [][ /\ (monitor_timer /\ ~monitor_timer') =>
              /\ job_info[current_job].status \notin {"Completed", "Failed"}
              /\ job_info'[current_job].status \in {"Completed", "Failed"}
        /\ (monitor_timer /\ monitor_timer') =>
              /\ failed_jobs' = failed_jobs
              /\ completed_jobs' = completed_jobs
              /\ current_job' = current_job
        /\ (monitor_timer /\ job_info'[current_job].status \in {"Queued", "Running", "Unknown"}) =>
              monitor_timer'
        /\ (th_pc = "monitor" /\ th_pc' # "monitor") =>
              \/ th_read' = "completed" /\ th_pc' = "download"
              \/ th_read' = "failed" /\ th_cause'[ThisJob] = "failed"
              \/ th_read' = "none" /\ mon_now >= TimeoutUnits /\ th_cause'[ThisJob] = "timeout"
        /\ (th_pc = "monitor" /\ th_pc' = "monitor") =>
              /\ th_failed_jobs' = th_failed_jobs
              /\ th_i' = th_i
        /\ (th_pc = "monitor" /\ mon_now' # mon_now) =>
              /\ th_read' \in {"running", "queued", "pending", "unknown", "raise"}
              /\ th_pc' = "monitor"
      ]_vars

\* The monitored job was read as Unknown and a later status check raised: it
\* is still monitored and in no list.
C22_Witness ==
    /\ monitor_timer /\ polls >= 2
    /\ job_info[current_job].status = "Unknown"
    /\ current_job \notin Range(failed_jobs) \cup Range(completed_jobs)

\* C23: once stop has been requested while a job is monitored, the next turn
\* of the polling loop ends the monitoring instead of checking the status
\* again: in the job handler the step after stop_processing leaves the
\* monitor without a further read, and in the batch handler no monitor timer
\* runs while should_stop is set.
C23_StopEndsMonitoring ==
    [][ /\ (th_should_stop /\ th_pc = "monitor") =>
              /\ th_pc' \notin {"monitor", "download"}
              /\ mon_now' = mon_now
        /\ should_stop => ~monitor_timer
      ]_vars

\* C24: a run whose login failed or raised at startup has ended with no job
\* dequeued or submitted: every job of the list is still pending and the
\* completed and failed lists are empty; a job handler whose setup failed
\* ends its run with no job submitted or recorded, and stays ended.
C24_StartupFailureFatal ==
    [][ /\ halt' = "login" =>
              /\ ~is_running' /\ ~monitor_timer'
              /\ dequeued' = <<>> /\ jobs_queue' = job_list'
              /\ completed_jobs' = <<>> /\ failed_jobs' = <<>>
              /\ jobs_submitted_today' = 0
              /\ current_job' = None
        /\ (th_pc = "setup" /\ th_pc' = "done") =>
              /\ th_submitted' = <<>>
              /\ successful_jobs' = <<>> /\ th_failed_jobs' = <<>>
        /\ th_pc = "done" =>
              /\ th_pc' = "done" /\ th_submitted' = th_submitted
              /\ successful_jobs' = successful_jobs /\ th_failed_jobs' = th_failed_jobs
      ]_vars

\* The login of a run over three jobs failed and the callbacks have run out.
C24_Witness ==
    /\ halt = "login" /\ Len(job_list) = NJobs
    /\ single_shots = 0 /\ ~connected

\* C25: the controller never resets jobs_submitted_today itself, so the
\* counter is the number of successful submits since the controller was
\* built, and over successive start_batch calls that number never exceeds
\* max_daily_jobs.
C25_LifetimeQuota ==
    /\ jobs_submitted_today = lifetime_submitted
    /\ lifetime_submitted <= max_daily_jobs

\* C26: a failed write of the batch summary does not abort the batch: when
\* the job handler's run leaves its summary step, with the file written or
\* not, the batch-completed event has been emitted, and every job that was
\* not cut off by a stop has been processed.
C26_WriteFailureTolerated ==
    [][ (th_pc = "summary" /\ th_pc' = "done") =>
          /\ th_completed_emitted'
          /\ ~th_should_stop => th_i = Len(jobs_to_process)
      ]_vars

\* C27: every job of the list given to start_batch is in exactly one place:
\* the pending queue, the working slot (current_job while it is in neither
\* result list), the completed list or the failed list, and there only once.
C27_OwnershipPartition ==
    \A j \in Range(job_list) :
      LET recorded == Occurrences(completed_jobs, j) + Occurrences(failed_jobs, j)
          working == IF current_job = j /\ recorded = 0 THEN 1 ELSE 0
      IN  Occurrences(jobs_queue, j) + working + recorded = 1

\* C28: in the manifest a retry pass has written, every item of the failed
\* list it loaded is exactly once in the failed list or among the results
\* the pass added, also when the pass was stopped before the last item.
C28_RetryConservation ==
    retry_pc = "done" =>
      \A i \in 1..Len(previous_summary.failed_genes) :
        LET g == previous_summary.failed_genes[i].gene_info
            new == summary_file.failed_genes
            added == SubSeq(summary_file.successful_results,
                            Len(previous_summary.successful_results) + 1,
                            Len(summary_file.successful_results))
        IN  Cardinality({k \in 1..Len(new) : new[k].gene_info = g})
              + Cardinality({k \in 1..Len(added) : added[k].gene_info = g}) = 1

\* C29: after search_and_download_bulk has run to the end without a stop,
\* every item of gene_list (two items may share a gene name) is recorded
\* exactly once, in the successful results or in the failed list, so that
\* successful_downloads + failed_downloads = total_genes, and no item had
\* more than max_retries download attempts.
C29_BulkConservation ==
    bulk_pc = "returned" =>
      /\ bulk_summary.successful_downloads + bulk_summary.failed_downloads
           = bulk_summary.total_genes
      /\ \A g \in GeneInfos :
           Cardinality({k \in 1..Len(gene_list) : gene_list[k] = g})
             = Cardinality({k \in 1..Len(bulk_summary.successful_results) :
                              bulk_summary.successful_results[k].gene_info = g})
               + Cardinality({k \in 1..Len(bulk_summary.failed_genes) :
                                bulk_summary.failed_genes[k].gene_info = g})
      /\ \A k \in 1..Len(bulk_attempts) : bulk_attempts[k] <= bulk_max_retries

\* C30: in one run of the batch handler a step raises jobs_submitted_today,
\* by one, exactly when the job it dequeued was submitted with success, and
\* a failed or raising submit leaves it alone; so the number of jobs dequeued
\* is the counter plus the number of submission failures, and the counter
\* stays within max_daily_jobs even when the number dequeued does not.
C30_QuotaOnSuccess ==
    [][ variant = "batch" =>
          LET submitted ==
                /\ dequeued' # dequeued
                /\ job_info'[dequeued'[Len(dequeued')]].job_id
              refused == {i \in 1..Len(failed_jobs') :
                            job_info'[failed_jobs'[i]].error \in SubmitErrors}
          IN  /\ jobs_submitted_today' =
                   jobs_submitted_today + (IF submitted THEN 1 ELSE 0)
              /\ Len(dequeued') = jobs_submitted_today' + Cardinality(refused)
              /\ jobs_submitted_today' <= max_daily_jobs' ]_vars

\* The run dequeued more jobs than the limit allows to submit.
C30_Witness ==
    /\ variant = "batch"
    /\ Len(dequeued) > max_daily_jobs
    /\ jobs_submitted_today = max_daily_jobs
    /\ \E i \in 1..Len(failed_jobs) : job_info[failed_jobs[i]].error \in SubmitErrors

====
